---- MODULE Spec2Model ----
(***************************************************************************)
(* The job lifecycle of bot.py: the JOBS registry, the URL handler on_url,  *)
(* the callbacks cb_cancel and cb_get (four download strategies, size gate, *)
(* upload) and the worker thread with its progress hook (Spec, FairSpec).  *)
(* Further specifications over the same variables: TokSpec, the quality    *)
(* tokens of kb_format_choices and their translation by token_to_format;   *)
(* SizeSpec, file_too_large and the size gate; SendSpec, send_with_retry;  *)
(* DirSpec, the files of DOWNLOAD_DIR under concurrent cb_get calls and    *)
(* purge_confirm; RegSpec, job ids in JOBS under several URL messages;     *)
(* ProgSpec, the clock and the throttle of the progress edits.             *)
(*                                                                         *)
(* One action is one run of a handler between two of its awaits (the event  *)
(* loop runs such a segment without interruption), or one step of a worker  *)
(* thread. An awaited msg.edit_text takes effect where it is issued. The    *)
(* end of a worker thread and the resumption of the cb_get call awaiting it *)
(* are one step: only that call reads the thread's result.                  *)
(***************************************************************************)
EXTENDS Integers, Sequences, FiniteSets, TLC

\* ------------------------------------------------------------------ bounds
\* distinct values of uuid.uuid4().hex[:8]
MaxIds == 1
\* URL messages handled (job records created)
MaxUrls == 1
\* cb_get calls in progress at one time
MaxGets == 2
\* cb_cancel calls in progress at one time
MaxCancels == 1
\* edits handed over by schedule_edit and not yet run by the loop
MaxPend == 1

JobIds == 1..MaxIds
Objs == 1..MaxUrls
Execs == 1..MaxGets
Cancels == 1..MaxCancels

VARIABLES
    JOBS,     \* the registry: job id -> job record (0: no entry)
    job,      \* the job records (dicts), by creation number
    ui,       \* the text shown in each job's message (job["msg"])
    pend,     \* the edits schedule_edit has handed to the loop, oldest first
    ex,       \* the cb_get calls
    cq,       \* the cb_cancel calls
    tk,       \* state of the token round trip (specification TokSpec)
    sz,       \* state of the size check (specification SizeSpec)
    up,       \* a send_with_retry call (specification SendSpec)
    disk,     \* the files of DOWNLOAD_DIR (specification DirSpec)
    fc,       \* the cb_get calls as DOWNLOAD_DIR sees them (DirSpec)
    pg        \* the clock and the progress edits of a job (ProgSpec)

\* The variables of the job lifecycle, and those of the other specifications.
main == <<JOBS, job, ui, pend, ex, cq>>
side == <<sz, up, disk, fc, pg>>

vars == <<JOBS, job, ui, pend, ex, cq, tk, sz, up, disk, fc, pg>>

\* ------------------------------------------------------------ the registry
NoJob == 0

\* JOBS.get(job_id)
JobsGet(id) == JOBS[id]

\* A return that leaves the entry in the registry.
JobsKept(id) == JOBS

\* JOBS.pop(job_id, None)
JobsPop(id) == [JOBS EXCEPT ![id] = NoJob]

\* JOBS.get(job_id, {}).get("cancelled"), as the hook and the raw fetch read it
CancelledFlag(id) == JOBS[id] # NoJob /\ job[JOBS[id]].cancelled

FreeJob == [id |-> 0, cancelled |-> FALSE, dl_url |-> "None",
            direct_mp4 |-> FALSE, pc |-> "free"]

\* A cb_get call: its place (pc), its locals (id, obj: the job it looked up;
\* strat: the strategy running, and 4 once the raw fetch has run; mp4:
\* mp4_url) and what has happened in it (why: how strategy 1 ended, while
\* strategy 2 runs; saw: the hook or the raw fetch has read the flag set;
\* creq: cb_cancel has set the flag during the download and no hook has
\* been called since; sent: the file was sent; out: the text or answer the
\* call ends with).
FreeEx == [pc |-> "free", id |-> 0, obj |-> NoJob, strat |-> 0, mp4 |-> FALSE,
           why |-> "none", saw |-> FALSE, creq |-> FALSE, sent |-> FALSE,
           out |-> "none"]

FreeCq == [pc |-> "free", id |-> 0, found |-> FALSE, reply |-> "none"]

TkIdle == [pc |-> "idle"]

SzIdle == [pc |-> "idle"]

UpIdle == [pc |-> "idle"]

PgIdle == [pc |-> "idle"]

\* The specifications of the single functions are at rest.
SideIdle == sz = SzIdle /\ up = UpIdle /\ disk = <<>> /\ fc = <<>> /\ pg = PgIdle

\* No URL has come yet.
MainIdle ==
    /\ JOBS = [i \in JobIds |-> NoJob]
    /\ job = [o \in Objs |-> FreeJob]
    /\ ui = [o \in Objs |-> "none"]
    /\ pend = <<>>
    /\ ex = [e \in Execs |-> FreeEx]
    /\ cq = [c \in Cancels |-> FreeCq]

Init ==
    /\ JOBS = [i \in JobIds |-> NoJob]
    /\ job = [o \in Objs |-> FreeJob]
    /\ ui = [o \in Objs |-> "none"]
    /\ pend = <<>>
    /\ ex = [e \in Execs |-> FreeEx]
    /\ cq = [c \in Cancels |-> FreeCq]
    /\ tk = TkIdle
    /\ SideIdle

\* ------------------------------------------------------------------ on_url
\* on_url up to the await of probe_info: the reply message, the new record
\* and its entry under a fresh random id (an id in use is overwritten).
OnUrl(o, id) ==
    /\ job[o].pc = "free"
    /\ \A p \in Objs : p < o => job[p].pc # "free"
    /\ job' = [job EXCEPT ![o] = [FreeJob EXCEPT !.id = id, !.pc = "probing"]]
    /\ JOBS' = [JOBS EXCEPT ![id] = o]
    /\ ui' = [ui EXCEPT ![o] = "checking"]
    /\ UNCHANGED <<pend, ex, cq, tk, side>>

ProbeKinds == {"info", "hls", "hlsq", "mp4", "nothing"}

\* on_url after probing: r is what probe_info and the page sniff found
\* ("hls": a manifest URL ending in .m3u8; "hlsq": one that only contains it).
OnUrlProbed(o, r) ==
    /\ job[o].pc = "probing"
    /\ job' = [job EXCEPT ![o] = [@ EXCEPT
                 !.pc = "ready",
                 !.dl_url = CASE r = "hls" -> "m3u8"
                              [] r = "hlsq" -> "m3u8?"
                              [] r = "mp4" -> "mp4"
                              [] OTHER -> "None",
                 !.direct_mp4 = (r = "mp4")]]
    /\ ui' = [ui EXCEPT ![o] = "choose"]
    /\ UNCHANGED <<JOBS, pend, ex, cq, tk, side>>

\* A callback comes from the buttons of a job's message: the message has
\* shown its keyboard and has not been deleted.
HasButtons(o) == job[o].pc = "ready" /\ ui[o] # "deleted"

\* --------------------------------------------------------------- cb_cancel
\* cb_cancel up to its awaited edit: the flag of the registered job, if any,
\* and the "Cancelled." text on the clicked message.
CbCancel(c, o) ==
    /\ HasButtons(o)
    /\ cq[c].pc = "free"
    /\ \A b \in Cancels : b < c => cq[b].pc # "free"
    /\ LET id == job[o].id
           j == JobsGet(id)
       IN /\ cq' = [cq EXCEPT ![c] =
                      [pc |-> "pop", id |-> id, found |-> (j # NoJob), reply |-> "cancelled"]]
          /\ job' = IF j # NoJob THEN [job EXCEPT ![j].cancelled = TRUE] ELSE job
          /\ ui' = [ui EXCEPT ![o] = "cancelled"]
          /\ ex' = [e \in Execs |->
                      IF j # NoJob /\ ex[e].pc \in {"run", "sniff"} /\ ex[e].obj = j
                      THEN [ex[e] EXCEPT !.creq = TRUE] ELSE ex[e]]
    /\ UNCHANGED <<JOBS, pend, tk, side>>

\* A cb_cancel that resets the flag of the record it removes.
CbCancelPopClears(c) ==
    /\ cq[c].pc = "pop"
    /\ JOBS' = JobsPop(cq[c].id)
    /\ job' = IF JOBS[cq[c].id] # NoJob
              THEN [job EXCEPT ![JOBS[cq[c].id]].cancelled = FALSE] ELSE job
    /\ cq' = [cq EXCEPT ![c] = FreeCq]
    /\ UNCHANGED <<ui, pend, ex, tk, side>>

\* cb_cancel after the edit: JOBS.pop, the answer, the return.
CbCancelPop(c) ==
    /\ cq[c].pc = "pop"
    /\ JOBS' = JobsPop(cq[c].id)
    /\ cq' = [cq EXCEPT ![c] = FreeCq]
    /\ UNCHANGED <<job, ui, pend, ex, tk, side>>

\* ------------------------------------------------------------------ cb_get
\* to_thread(ytdlp_run, ...): strategy k (1 site-aware, 2 generic, 3 the
\* engine on the HLS manifest) starts on a worker thread. y is how the
\* strategy before it ended.
StartStrategy(r, k, y) ==
    [r EXCEPT !.pc = "run", !.strat = k, !.why = IF k = 2 THEN y ELSE "none"]

\* The strategies are over: their locals are of no further use.
Leave(r) == [r EXCEPT !.strat = 0, !.mp4 = FALSE, !.why = "none", !.creq = FALSE]

\* A size gate that ends the job like a failure: the text, then JOBS.pop.
RouteDropsTooLarge(r0, f) ==
    LET r == [Leave(r0) EXCEPT !.strat = IF r0.strat = 4 THEN 4 ELSE 0]
    IN CASE f \in {"None", "missing"} ->
              <<[r EXCEPT !.pc = "w_pop", !.out = "notfound"], "notfound">>
         [] f = "big" ->
              <<[r EXCEPT !.pc = "w_pop", !.out = "toolarge"], "toolarge">>
         [] OTHER ->
              <<[r EXCEPT !.pc = "w_send"], "uploading">>

\* The code after the strategies: the file-not-found check, the size gate
\* and the "Uploading" edit. f is what final_path names on disk ("None": no
\* path, "missing": a path with no file, "big": a file over the ceiling).
\* The result is the call's next state and the text it puts on the message.
Route(r0, f) ==
    LET r == [Leave(r0) EXCEPT !.strat = IF r0.strat = 4 THEN 4 ELSE 0]
    IN CASE f \in {"None", "missing"} ->
              <<[r EXCEPT !.pc = "w_pop", !.out = "notfound"], "notfound">>
         [] f = "big" ->
              <<[r EXCEPT !.pc = "w_rm", !.out = "toolarge"], "toolarge">>
         [] OTHER ->
              <<[r EXCEPT !.pc = "w_send"], "uploading">>

\* What the raw fetch meets: the GET fails, the body has no chunk, or it has
\* chunks making a file under or over the ceiling.
FetchResults == {"httperr", "nochunk", "ok", "big"}

\* A step of cb_get that schedules no edit.
Quiet(p) == <<p[1], p[2], FALSE>>

\* Strategy 4, direct_http_download, and the handlers of the outer try. It
\* has no await: it runs on the event loop in one piece. flag is the value
\* JOBS.get(job_id, {}).get("cancelled") has at every chunk boundary. The
\* third component tells whether it has scheduled a progress edit, which it
\* does at the first chunk it writes.
DirectFetch(r0, flag, d) ==
    LET r == [Leave(r0) EXCEPT !.strat = 4]
    IN CASE d = "httperr" ->
              <<[r EXCEPT !.pc = "w_pop", !.out = "err_other"], "err_other", FALSE>>
         [] d = "nochunk" -> Quiet(Route(r, "ok"))
         [] flag ->
              <<[r EXCEPT !.pc = "w_pop", !.out = "err_download", !.saw = TRUE],
                "err_download", FALSE>>
         [] OTHER -> <<Route(r, d)[1], Route(r, d)[2], TRUE>>

\* "if not final_path and (mp4_url or job.get('direct_mp4'))"
AfterHls(r, mp4, flag, d) ==
    IF mp4 \/ job[r.obj].direct_mp4
    THEN DirectFetch(r, flag, d)
    ELSE Quiet(Route(r, "None"))

\* "if m3u8_url: ... ytdlp_run(m3u8_url)" and what follows when there is none
AfterSniff(r, m3u8, mp4, flag, d) ==
    IF m3u8
    THEN <<StartStrategy([r EXCEPT !.mp4 = mp4], 3, "none"), "same", FALSE>>
    ELSE AfterHls(r, mp4, flag, d)

\* A ladder that goes back to strategy 1 when strategy 2 has raised.
AfterRaiseAgain(r, y, flag, d) ==
       IF r.strat = 1 THEN <<StartStrategy(r, 2, y), "same", FALSE>>
       ELSE IF r.strat = 2 THEN <<StartStrategy(r, 1, "none"), "same", FALSE>>
       ELSE AfterHls(r, r.mp4, flag, d)

\* The except-chain of the four strategies, entered when the thread of
\* strategy r.strat has raised (y: "cancel" from the hook, "drm" or "err"
\* from the engine).
AfterRaise(r, y, flag, d) ==
       IF r.strat = 1 THEN <<StartStrategy(r, 2, y), "same", FALSE>>
       ELSE IF r.strat = 2 THEN
           LET j == job[r.obj]
           IN IF j.dl_url = "m3u8" THEN AfterSniff(r, TRUE, FALSE, flag, d)
              ELSE IF j.dl_url # "None" /\ j.direct_mp4
                   THEN AfterSniff(r, FALSE, TRUE, flag, d)
              ELSE <<[r EXCEPT !.pc = "sniff", !.why = "none"], "same", FALSE>>
       ELSE AfterHls(r, r.mp4, flag, d)

\* schedule_edit(loop, msg, text): the edit waits for the loop to run it.
ScheduleEdit(o, text) ==
    /\ Len(pend) < MaxPend
    /\ pend' = Append(pend, <<o, text>>)

\* What a step of cb_get leaves: its locals p[1], the text p[2] it has put
\* on the message ("same": none; an edit of a deleted message fails and is
\* suppressed) and, when p[3], a scheduled progress edit.
SetEx(e, p) ==
    /\ ex' = [ex EXCEPT ![e] = p[1]]
    /\ ui' = IF p[2] = "same" \/ ui[ex[e].obj] = "deleted" THEN ui
             ELSE [ui EXCEPT ![ex[e].obj] = p[2]]
    /\ IF p[3] THEN ScheduleEdit(ex[e].obj, "progress") ELSE pend' = pend

\* A cb_get that goes on with the record of the clicked message when the id
\* has no entry.
CbGetStale(e, o) ==
    /\ HasButtons(o)
    /\ ex[e].pc = "free"
    /\ \A b \in Execs : b < e => ex[b].pc # "free"
    /\ ex' = [ex EXCEPT ![e] = [FreeEx EXCEPT !.pc = "prep", !.id = job[o].id, !.obj = o]]
    /\ UNCHANGED <<JOBS, job, ui, pend, cq, tk, side>>

\* cb_get up to the await of cq.answer: the registry lookup; "Job missing."
\* and the return when there is no entry.
CbGet(e, o) ==
    /\ HasButtons(o)
    /\ ex[e].pc = "free"
    /\ \A b \in Execs : b < e => ex[b].pc # "free"
    /\ LET id == job[o].id
           j == JobsGet(id)
       IN ex' = [ex EXCEPT ![e] =
                   IF j = NoJob
                   THEN [FreeEx EXCEPT !.pc = "w_ret", !.id = id, !.out = "missing"]
                   ELSE [FreeEx EXCEPT !.pc = "prep", !.id = id, !.obj = j]]
    /\ UNCHANGED <<JOBS, job, ui, pend, cq, tk, side>>

\* The "Preparing" edit, then strategy 1 goes to its thread.
Prepare(e) ==
    /\ ex[e].pc = "prep"
    /\ SetEx(e, <<StartStrategy(ex[e], 1, "none"), "preparing", FALSE>>)
    /\ UNCHANGED <<JOBS, job, cq, tk, side>>

\* A hook that edits the message itself, from its thread, where the hook of
\* cb_get hands the text to the loop.
HookEditsItself(e, st, open, d) ==
    /\ ex[e].pc = "run"
    /\ LET r == [ex[e] EXCEPT !.creq = FALSE]
       IN IF CancelledFlag(r.id)
          THEN SetEx(e, AfterRaise([r EXCEPT !.saw = TRUE], "cancel",
                                   CancelledFlag(r.id), d))
          ELSE /\ ex' = [ex EXCEPT ![e] = r]
               /\ pend' = pend
               /\ ui' = IF st = "finished" THEN [ui EXCEPT ![r.obj] = "finalizing"]
                        ELSE IF open THEN [ui EXCEPT ![r.obj] = "progress"]
                        ELSE ui
    /\ UNCHANGED <<JOBS, job, cq, tk, side>>

\* The worker thread: the engine calls hook(d) with status st; open tells
\* whether more than a second has passed since started["ts"]. The hook
\* raises when it reads the flag, and cb_get goes on with its except-chain;
\* otherwise it hands a progress line or the "Finalizing" text to the loop.
Hook(e, st, open, d) ==
    /\ ex[e].pc = "run"
    /\ LET r == [ex[e] EXCEPT !.creq = FALSE]
       IN IF CancelledFlag(r.id)
          THEN SetEx(e, AfterRaise([r EXCEPT !.saw = TRUE], "cancel",
                                   CancelledFlag(r.id), d))
          ELSE /\ ex' = [ex EXCEPT ![e] = r]
               /\ ui' = ui
               /\ IF st = "finished" THEN ScheduleEdit(r.obj, "finalizing")
                  ELSE IF open THEN ScheduleEdit(r.obj, "progress")
                  ELSE pend' = pend
    /\ UNCHANGED <<JOBS, job, cq, tk, side>>

\* The worker thread: extract_info returns and ytdlp_run returns a path.
EngineReturn(e, f) ==
    /\ ex[e].pc = "run"
    /\ SetEx(e, Quiet(Route(ex[e], f)))
    /\ UNCHANGED <<JOBS, job, cq, tk, side>>

\* The worker thread: the engine raises ("drm": a DRM/encryption error).
EngineRaise(e, k, d) ==
    /\ ex[e].pc = "run"
    /\ SetEx(e, AfterRaise(ex[e], k, CancelledFlag(ex[e].id), d))
    /\ UNCHANGED <<JOBS, job, cq, tk, side>>

\* sniff_direct_once returns (m3u8_url, mp4_url).
Sniffed(e, m3u8, mp4, d) ==
    /\ ex[e].pc = "sniff"
    /\ SetEx(e, AfterSniff(ex[e], m3u8, mp4, CancelledFlag(ex[e].id), d))
    /\ UNCHANGED <<JOBS, job, cq, tk, side>>

\* send_with_retry ends; then msg.delete(), or the "Upload failed" edit.
Send(e, ok) ==
    /\ ex[e].pc = "w_send"
    /\ SetEx(e, IF ok
                THEN <<[ex[e] EXCEPT !.pc = "w_pop", !.sent = TRUE, !.out = "delivered"],
                       "deleted", FALSE>>
                ELSE <<[ex[e] EXCEPT !.pc = "w_pop", !.out = "upload_failed"],
                       "upload_failed", FALSE>>)
    /\ UNCHANGED <<JOBS, job, cq, tk, side>>

\* The end of a path that removes the job: JOBS.pop(job_id, None); return.
Pop(e) ==
    /\ ex[e].pc = "w_pop"
    /\ JOBS' = JobsPop(ex[e].id)
    /\ ex' = [ex EXCEPT ![e] = FreeEx]
    /\ UNCHANGED <<job, ui, pend, cq, tk, side>>

\* The end of a path that keeps the registry as it is: too large (os.remove;
\* return) and job missing (return).
Return(e) ==
    /\ ex[e].pc \in {"w_rm", "w_ret"}
    /\ ex' = [ex EXCEPT ![e] = FreeEx]
    /\ UNCHANGED <<JOBS, job, ui, pend, cq, tk, side>>

\* The loop runs the oldest scheduled _edit; an edit of a deleted message
\* fails and is suppressed.
RunEdit ==
    /\ pend # <<>>
    /\ LET o == Head(pend)[1]
       IN ui' = IF ui[o] = "deleted" THEN ui ELSE [ui EXCEPT ![o] = Head(pend)[2]]
    /\ pend' = Tail(pend)
    /\ UNCHANGED <<JOBS, job, ex, cq, tk, side>>

\* ------------------------------------------------------------ specification
\* The user: messages and button clicks.
User ==
    \/ \E o \in Objs, id \in JobIds : OnUrl(o, id)
    \/ \E c \in Cancels, o \in Objs : CbCancel(c, o)
    \/ \E e \in Execs, o \in Objs : CbGet(e, o)

\* The program: handlers continuing, worker threads, scheduled edits.
Program ==
    \/ \E o \in Objs, r \in ProbeKinds : OnUrlProbed(o, r)
    \/ \E c \in Cancels : CbCancelPop(c)
    \/ \E e \in Execs : Prepare(e)
    \/ \E e \in Execs, st \in {"downloading", "finished"}, open \in BOOLEAN,
          d \in FetchResults : Hook(e, st, open, d)
    \/ \E e \in Execs, f \in {"missing", "ok", "big"} : EngineReturn(e, f)
    \/ \E e \in Execs, k \in {"drm", "err"}, d \in FetchResults : EngineRaise(e, k, d)
    \/ \E e \in Execs, m3u8 \in BOOLEAN, mp4 \in BOOLEAN, d \in FetchResults :
          Sniffed(e, m3u8, mp4, d)
    \/ \E e \in Execs, ok \in BOOLEAN : Send(e, ok)
    \/ \E e \in Execs : Pop(e)
    \/ \E e \in Execs : Return(e)
    \/ RunEdit

Next == User \/ Program

Spec == Init /\ [][Next]_vars

\* The loop resumes a cb_get call whose await has ended.
Continue(e) ==
    \/ Prepare(e)
    \/ \E m3u8 \in BOOLEAN, mp4 \in BOOLEAN, d \in FetchResults : Sniffed(e, m3u8, mp4, d)
    \/ \E ok \in BOOLEAN : Send(e, ok)
    \/ Pop(e)
    \/ Return(e)

\* The engine call of the running strategy returns or raises.
EngineEnds(e) ==
    \/ \E f \in {"missing", "ok", "big"} : EngineReturn(e, f)
    \/ \E k \in {"drm", "err"}, d \in FetchResults : EngineRaise(e, k, d)

\* The loop resumes every call whose await has ended, and every engine and
\* transport call returns or raises.
FairSpec ==
    Spec /\ \A e \in Execs : WF_vars(Continue(e)) /\ WF_vars(EngineEnds(e))

\* ------------------------------------------------------------------ claims
Downloading(e) == ex[e].pc \in {"run", "sniff"}

\* The worker thread of call e calls the hook.
HookStep(e) ==
    \E st \in {"downloading", "finished"}, open \in BOOLEAN, d \in FetchResults :
        Hook(e, st, open, d)

\* C1: once a cb_get call has observed the cancellation (its hook, or its
\* raw fetch, has read the flag set), that call never sends the file.
C1_NoDeliveryAfterCancel == \A e \in Execs : ex[e].saw => ~ex[e].sent

\* C2: when cb_cancel has set the flag while a call is downloading, the next
\* hook invocation of that call reads the flag set and aborts.
C2_HonouredAtNextHook ==
    [][\A e \in Execs : (ex[e].creq /\ HookStep(e)) => ex'[e].saw]_vars

\* C3: a call that has observed the cancellation never ends with the
\* "Download error" text.
C3_CancelIsNotDownloadError == \A e \in Execs : ex[e].saw => ex[e].out # "err_download"

\* C4: the strategies of a call start in the order 1, 2, 3, 4, and none of
\* 2, 3, 4 starts once the call's job has its cancellation flag set.
C4_LadderStopsOnCancel ==
    [][\A e \in Execs :
          (ex'[e].strat # ex[e].strat /\ ex'[e].strat # 0) =>
              /\ ex'[e].strat > ex[e].strat
              /\ ex'[e].strat >= 2 => ~job[ex[e].obj].cancelled]_vars

\* C5: strategy 2 never runs after the engine has raised a DRM error on
\* strategy 1 (and so neither 3 nor 4, which come after 2).
C5_DrmStopsLadder == \A e \in Execs : ~(ex[e].strat = 2 /\ ex[e].why = "drm")
\* Where a call is once its strategies are over.
Delivering(e) == ex[e].pc = "w_send"

TooLargeOffered(e) == ex[e].pc = "w_rm" /\ ex[e].out = "toolarge"

Failed(e) == ex[e].pc = "w_pop" /\ ex[e].out \in {"notfound", "err_download", "err_other"}

ExactlyOne(a, b, c) == (a /\ ~b /\ ~c) \/ (~a /\ b /\ ~c) \/ (~a /\ ~b /\ c)

\* C6: when every engine and transport call returns or raises and the loop
\* resumes every call, a call that is downloading eventually is in exactly
\* one of: delivering (the upload), too large with the quality keyboard
\* offered, failed.
C6_LeavesDownloading ==
    \A e \in Execs :
        Downloading(e) ~> ExactlyOne(Delivering(e), TooLargeOffered(e), Failed(e))

\* A call that went down the whole ladder to the raw fetch is uploading,
\* while the other call has failed.
C6_Witness ==
    \E e, f \in Execs : ex[e].strat = 4 /\ Delivering(e) /\ Failed(f)

\* C7: no two cb_get calls are downloading for the same job id at one time.
C7_OneExecutionPerJob ==
    \A e, f \in Execs :
        (e # f /\ Downloading(e) /\ Downloading(f)) => ex[e].id # ex[f].id

\* The cb_get call e returns.
Returns(e) == ex[e].pc # "free" /\ ex'[e].pc = "free"

TerminalOuts == {"delivered", "upload_failed", "notfound", "err_download", "err_other"}

\* C8: a cb_get call that returns with a terminal outcome (delivered, upload
\* failed, file not found, download error, error) and a cb_cancel call that
\* returns leave the id out of JOBS; a cb_get call that returns with the
\* too-large outcome leaves JOBS as it was.
C8_TerminalRemoves ==
    [][/\ \A e \in Execs :
             Returns(e) =>
                 /\ ex[e].out \in TerminalOuts => JOBS'[ex[e].id] = NoJob
                 /\ ex[e].out = "toolarge" => JOBS' = JOBS
       /\ \A c \in Cancels :
             (cq[c].pc = "pop" /\ cq'[c].pc = "free") => JOBS'[cq[c].id] = NoJob]_vars

\* The file was sent, the message deleted, the call has returned, nobody
\* cancelled, and the id is out of JOBS.
C8_Witness ==
    \E o \in Objs :
        /\ ui[o] = "deleted"
        /\ ~job[o].cancelled
        /\ JOBS[job[o].id] = NoJob
        /\ \A e \in Execs : ex[e].pc = "free"

\* C9: a callback whose id is not in JOBS reports that the job is missing
\* and starts nothing: cb_get ends with "Job missing.", cb_cancel answers
\* with a missing/expired error.
C9_MissingIdReported ==
    /\ \A e \in Execs :
          (ex[e].pc # "free" /\ ex[e].obj = NoJob) =>
              (ex[e].pc = "w_ret" /\ ex[e].out = "missing")
    /\ \A c \in Cancels :
          (cq[c].pc = "pop" /\ ~cq[c].found) => cq[c].reply = "missing"


\* ------------------------------------------------- quality tokens (text)
\* Text is a sequence of one-character strings.
Digits == <<"0", "1", "2", "3", "4", "5", "6", "7", "8", "9">>

IsDigitChar(c) == \E d \in 1..10 : Digits[d] = c

DigitVal(c) == (CHOOSE d \in 1..10 : Digits[d] = c) - 1

\* f"{n}" of an int
RECURSIVE IntToStr(_)
IntToStr(n) ==
    IF n < 0 THEN <<"-">> \o IntToStr(-n)
    ELSE IF n < 10 THEN <<Digits[n + 1]>>
    ELSE IntToStr(n \div 10) \o <<Digits[(n % 10) + 1]>>

\* str.isdigit()
IsDigit(s) == s # <<>> /\ \A i \in 1..Len(s) : IsDigitChar(s[i])

\* int(s) of a string of digits
RECURSIVE StrToInt(_)
StrToInt(s) ==
    IF s = <<>> THEN 0
    ELSE 10 * StrToInt(SubSeq(s, 1, Len(s) - 1)) + DigitVal(s[Len(s)])

\* s.split(c)
RECURSIVE Split(_, _)
Split(s, c) ==
    IF \A i \in 1..Len(s) : s[i] # c THEN <<s>>
    ELSE LET k == CHOOSE i \in 1..Len(s) :
                     s[i] = c /\ \A j \in 1..(i - 1) : s[j] # c
         IN <<SubSeq(s, 1, k - 1)>> \o Split(SubSeq(s, k + 1, Len(s)), c)

StartsWith(s, pre) == Len(s) >= Len(pre) /\ SubSeq(s, 1, Len(pre)) = pre

NoMatch == -1

\* re.search(r"(\d+)\s*p", res): the number of the leftmost match, or NoMatch.
NoteHeight(res) ==
    LET RunEnd(i) == CHOOSE j \in i..Len(res) :
                        /\ \A k \in i..j : IsDigitChar(res[k])
                        /\ (j = Len(res) \/ ~IsDigitChar(res[j + 1]))
        After(i) == CHOOSE j \in (RunEnd(i) + 1)..(Len(res) + 1) :
                        /\ \A k \in (RunEnd(i) + 1)..(j - 1) : res[k] = " "
                        /\ (j = Len(res) + 1 \/ res[j] # " ")
        Matches(i) == /\ IsDigitChar(res[i])
                      /\ After(i) <= Len(res)
                      /\ res[After(i)] = "p"
        starts == {i \in 1..Len(res) : Matches(i)}
    IN IF starts = {} THEN NoMatch
       ELSE LET i == CHOOSE x \in starts : \A y \in starts : x <= y
            IN StrToInt(SubSeq(res, i, RunEnd(i)))

\* on_url, the loop over info["formats"]: the heights it collects. A format
\* is [vcodec, height, res]; height is <<h>> for an int h and <<>> for
\* anything else (None, a float).
RECURSIVE InfoHeights(_)
InfoHeights(formats) ==
    IF formats = <<>> THEN <<>>
    ELSE LET f == Head(formats)
             rest == InfoHeights(Tail(formats))
         IN IF f.vcodec \in {"None", "none"} THEN rest
            ELSE IF f.height # <<>> /\ f.height[1] > 0 THEN <<f.height[1]>> \o rest
            ELSE IF NoteHeight(f.res) # NoMatch THEN <<NoteHeight(f.res)>> \o rest
            ELSE rest

\* sorted(s, reverse=True) of a set of ints
RECURSIVE SortedDesc(_)
SortedDesc(S) ==
    IF S = {} THEN <<>>
    ELSE LET m == CHOOSE x \in S : \A y \in S : y <= x
         IN <<m>> \o SortedDesc(S \ {m})

Range(q) == {q[i] : i \in 1..Len(q)}

\* m3u8_heights: each line is the digits its RESOLUTION=WxH gives for H, or
\* <<>> when the pattern does not match the line.
M3u8Heights(lines) ==
    SortedDesc({StrToInt(lines[i]) : i \in {k \in 1..Len(lines) : lines[k] # <<>>}})

Ladder == <<1080, 720, 480, 360>>

Get == <<"g", "e", "t">>
Best == <<"b", "e", "s", "t">>

\* Height buttons made without the "if h" test.
RECURSIVE HeightButtonsAll(_, _)
HeightButtonsAll(job_id, hs) ==
    IF hs = <<>> THEN <<>>
    ELSE <<[text |-> IntToStr(Head(hs)) \o <<"p">>,
            data |-> Get \o <<":">> \o job_id \o <<":", "h">> \o IntToStr(Head(hs))]>>
         \o HeightButtonsAll(job_id, Tail(hs))

\* The height buttons of kb_format_choices, made one by one.
RECURSIVE HeightButtons(_, _)
HeightButtons(job_id, hs) ==
    IF hs = <<>> THEN <<>>
    ELSE LET h == Head(hs)
             rest == HeightButtons(job_id, Tail(hs))
         IN IF h # 0
            THEN <<[text |-> IntToStr(h) \o <<"p">>,
                    data |-> Get \o <<":">> \o job_id \o <<":", "h">> \o IntToStr(h)]>>
                 \o rest
            ELSE rest

\* A keyboard that never has the "Best" button.
KbHeightsOnly(job_id, heights, include_best) ==
    HeightButtons(job_id, SortedDesc(Range(heights)))
    \o <<[text |-> <<"Cancel">>,
          data |-> <<"c", "a", "n", "c", "e", "l", ":">> \o job_id]>>

\* kb_format_choices(job_id, heights, include_best): the buttons, each with
\* its text and its callback_data.
KbFormatChoices(job_id, heights, include_best) ==
    (IF include_best
     THEN <<[text |-> <<"Best">>, data |-> Get \o <<":">> \o job_id \o <<":">> \o Best]>>
     ELSE <<>>)
    \o HeightButtons(job_id, SortedDesc(Range(heights)))
    \o <<[text |-> <<"Cancel">>,
          data |-> <<"c", "a", "n", "c", "e", "l", ":">> \o job_id]>>

Uncapped == <<"bv*+ba/b">>

Capped(h) ==
    <<"bv*[height<=">> \o IntToStr(h) \o <<"]+ba/b[height<=">> \o IntToStr(h) \o <<"]">>

\* token_to_format(token)
TokenToFormat(token) ==
    IF token = Best THEN Uncapped
    ELSE IF StartsWith(token, <<"h">>) /\ IsDigit(Tail(token))
         THEN Capped(StrToInt(Tail(token)))
    ELSE Uncapped

\* ------------------------------------------ quality tokens (specification)
\* longest info["formats"] and longest manifest tried
MaxFormats == 2

FormatHeights == {<<>>, <<-2>>, <<0>>, <<360>>, <<1080>>}

FormatNotes == {<<>>, <<"4", "8", "0", "p">>, <<"x", "0", " ", "p">>,
                <<"7", "2", "0", "x", "p">>}

Formats == [vcodec : {"none", "avc1"}, height : FormatHeights, res : FormatNotes]

ManifestLines == {<<>>, <<"0">>, <<"7", "2", "0">>, <<"0", "4", "8", "0">>}

SeqsUpTo(S, n) == UNION {[1..k -> S] : k \in 0..n}

TokJobIds == {<<"3", "f">>, <<"0", "a", "9">>}

\* What on_url and cb_get pass to kb_format_choices.
TokInputs ==
    {[src |-> "info", formats |-> fs, lines |-> <<>>] : fs \in SeqsUpTo(Formats, MaxFormats)}
    \cup {[src |-> "hls", formats |-> <<>>, lines |-> ls] :
             ls \in SeqsUpTo(ManifestLines, MaxFormats)}
    \cup {[src |-> x, formats |-> <<>>, lines |-> <<>>] :
             x \in {"mp4", "nothing", "preparing", "toolarge"}}

TokInit ==
    /\ JOBS = [i \in JobIds |-> NoJob]
    /\ job = [o \in Objs |-> FreeJob]
    /\ ui = [o \in Objs |-> "none"]
    /\ pend = <<>>
    /\ ex = [e \in Execs |-> FreeEx]
    /\ cq = [c \in Cancels |-> FreeCq]
    /\ SideIdle
    /\ \E id \in TokJobIds, in \in TokInputs :
          tk = [pc |-> "input", id |-> id, in |-> in]

\* The keyboard each place of the code asks for.
TokKeyboardOf(id, in) ==
    CASE in.src = "info" -> KbFormatChoices(id, InfoHeights(in.formats), TRUE)
      [] in.src = "hls" ->
           KbFormatChoices(id, IF M3u8Heights(in.lines) # <<>>
                               THEN M3u8Heights(in.lines) ELSE Ladder, TRUE)
      [] in.src = "mp4" -> KbFormatChoices(id, <<>>, TRUE)
      [] in.src = "preparing" -> KbFormatChoices(id, <<>>, FALSE)
      [] OTHER -> KbFormatChoices(id, Ladder, TRUE)

\* The message gets its keyboard.
TokShow ==
    /\ tk.pc = "input"
    /\ tk' = [pc |-> "shown", id |-> tk.id, src |-> tk.in.src,
              buttons |-> TokKeyboardOf(tk.id, tk.in)]
    /\ UNCHANGED <<main, side>>

\* The user clicks button i; its data starts with "get:", so cb_get gets it,
\* splits it ("_, job_id, token = ...": anything but three parts raises) and
\* translates the token.
TokClick(i) ==
    /\ tk.pc = "shown"
    /\ i \in 1..Len(tk.buttons)
    /\ StartsWith(tk.buttons[i].data, Get \o <<":">>)
    /\ LET parts == Split(tk.buttons[i].data, ":")
       IN tk' = IF Len(parts) = 3
                THEN [pc |-> "clicked", id |-> tk.id, button |-> tk.buttons[i],
                      job_id |-> parts[2], token |-> parts[3],
                      fmt_sel |-> TokenToFormat(parts[3])]
                ELSE [pc |-> "raised", id |-> tk.id, button |-> tk.buttons[i]]
    /\ UNCHANGED <<main, side>>

TokNext == TokShow \/ \E i \in 1..(Len(Ladder) + MaxFormats + 2) : TokClick(i)

TokSpec == TokInit /\ [][TokNext]_vars

\* ------------------------------------------------ quality tokens (claims)
\* C10: the token of a clicked quality button is "best", translated to the
\* uncapped selector, or "h" followed by the decimal digits of a positive
\* integer H (the H of the button's text "<H>p"), translated to the
\* selector capped at H; splitting the button's data never raises.
C10_TokenRoundTrip ==
    /\ tk.pc # "raised"
    /\ tk.pc = "clicked" =>
          /\ tk.job_id = tk.id
          /\ \/ /\ tk.token = Best
                /\ tk.button.text = <<"Best">>
                /\ tk.fmt_sel = Uncapped
             \/ /\ StartsWith(tk.token, <<"h">>)
                /\ IsDigit(Tail(tk.token))
                /\ LET H == StrToInt(Tail(tk.token))
                   IN /\ H > 0
                      /\ Tail(tk.token) = IntToStr(H)
                      /\ tk.button.text = IntToStr(H) \o <<"p">>
                      /\ tk.fmt_sel = Capped(H)

\* The places of on_url that end the handler with a keyboard.
OnUrlSources == {"info", "hls", "mp4", "nothing"}

\* C17: every keyboard on_url ends with, whatever the probe and the sniff
\* found, has a button whose data is "get:<the job's id>:<token>".
C17_OptionsNeverEmpty ==
    (tk.pc = "shown" /\ tk.src \in OnUrlSources) =>
        \E i \in 1..Len(tk.buttons) :
            LET parts == Split(tk.buttons[i].data, ":")
            IN Len(parts) = 3 /\ parts[1] = Get /\ parts[2] = tk.id /\ parts[3] # <<>>

\* The probe gave formats without any usable height: "Best" is the one
\* quality button.
C17_Witness ==
    /\ tk.pc = "shown"
    /\ tk.src = "info"
    /\ Len(tk.buttons) = 2
    /\ tk.buttons[1].text = <<"Best">>

\* The manifest line "RESOLUTION=...x0480" gave the button "480p", whose
\* click was translated to the selector capped at 480.
C10_Witness ==
    /\ tk.pc = "clicked"
    /\ tk.token = <<"h", "4", "8", "0">>
    /\ tk.fmt_sel = Capped(480)

\* --------------------------------------------------------- the size check
\* MAX_FILE_MB as it is when the environment does not set it
DefaultMaxFileMb == 1900

\* A size check that also stops a file of exactly the ceiling.
FileAtLeast(file, max_mb) ==
    IF file = <<>> THEN FALSE ELSE file[1] >= max_mb * 1024 * 1024

\* os.path.getsize(path) > max_mb * 1024 * 1024, and False when the file is
\* not there. file is <<size>>, or <<>> for a path with no file.
FileTooLarge(file, max_mb) ==
    IF file = <<>> THEN FALSE ELSE file[1] > max_mb * 1024 * 1024

\* What cb_get makes of final_path after the strategies: the existence check
\* and the size gate give the case Route goes by.
FileKind(file, max_mb) ==
    IF file = <<>> THEN "missing"
    ELSE IF FileTooLarge(file, max_mb) THEN "big"
    ELSE "ok"

\* Values of MAX_FILE_MB (settings_max_set can store any int).
Ceilings == {0, 1, 2, 50, DefaultMaxFileMb}

\* Sizes in bytes around the threshold of ceiling c.
SizesAt(c) == {s \in {0, 1, c * 1048576 - 1, c * 1048576, c * 1048576 + 1,
                      (c + 100) * 1048576} : s >= 0}

SzInit ==
    /\ MainIdle
    /\ pg = PgIdle /\ tk = TkIdle /\ up = UpIdle /\ disk = <<>> /\ fc = <<>>
    /\ \E c \in Ceilings :
          \E f \in {<<>>} \cup {<<s>> : s \in SizesAt(c)} :
              sz = [pc |-> "input", file |-> f, max_mb |-> c, seen |-> <<>>, to |-> "none"]

\* The size gate looks at the path (again): the file and the ceiling are as
\* they were.
SzResolve ==
    /\ sz.pc \in {"input", "resolved"}
    /\ Len(sz.seen) < 2
    /\ sz' = [sz EXCEPT !.pc = "resolved",
                        !.seen = Append(@, FileKind(sz.file, sz.max_mb))]
    /\ UNCHANGED <<main, pg, tk, up, disk, fc>>

\* The routing of the last decision: the "too large" reply, the upload, or
\* the "File not found" text.
SzRoute ==
    /\ sz.pc = "resolved"
    /\ sz' = [sz EXCEPT !.pc = "routed",
                        !.to = Route(FreeEx, sz.seen[Len(sz.seen)])[1].pc]
    /\ UNCHANGED <<main, pg, tk, up, disk, fc>>

SzNext == SzResolve \/ SzRoute

SizeSpec == SzInit /\ [][SzNext]_vars

\* C11: for a file of s bytes and a ceiling of c MB the size gate decides
\* too large exactly when s > c*1024*1024 and routes to the too-large reply
\* then and to the upload otherwise; deciding again gives the same.
C11_SizeGateIsPure ==
    (sz.pc \in {"resolved", "routed"} /\ sz.file # <<>>) =>
        LET big == sz.file[1] \div 1048576 > sz.max_mb
                       \/ (sz.file[1] \div 1048576 = sz.max_mb /\ sz.file[1] % 1048576 > 0)
        IN /\ \A i \in 1..Len(sz.seen) : sz.seen[i] = IF big THEN "big" ELSE "ok"
           /\ sz.pc = "routed" => sz.to = IF big THEN "w_rm" ELSE "w_send"

\* A file of exactly 1900 MB has been looked at twice and goes to the upload.
C11_Witness ==
    /\ sz.pc = "routed"
    /\ sz.file = <<1900 * 1048576>>
    /\ sz.max_mb = 1900
    /\ Len(sz.seen) = 2
    /\ sz.to = "w_send"

\* ------------------------------------------------------- send_with_retry
\* str.lower(), on the letters of the file names tried
LowerChar(c) ==
    CASE c = "M" -> "m" [] c = "P" -> "p" [] c = "K" -> "k" [] c = "V" -> "v"
      [] OTHER -> c

Lower(s) == [i \in 1..Len(s) |-> LowerChar(s[i])]

\* os.path.splitext(name)[1]: from the last dot on, unless only dots come
\* before it.
SplitExt(name) ==
    LET dots == {i \in 1..Len(name) : name[i] = "."}
    IN IF dots = {} THEN <<>>
       ELSE LET k == CHOOSE i \in dots : \A j \in dots : j <= i
            IN IF \A j \in 1..(k - 1) : name[j] = "." THEN <<>>
               ELSE SubSeq(name, k, Len(name))

\* s.lstrip(".")
RECURSIVE LStripDots(_)
LStripDots(s) == IF s # <<>> /\ Head(s) = "." THEN LStripDots(Tail(s)) ELSE s

VideoExts == {<<"m", "p", "4">>, <<"m", "k", "v">>, <<"w", "e", "b", "m">>,
              <<"m", "o", "v">>, <<"m", "4", "v">>}

\* A test of the extension that forgets .lower().
LooksVideoCased(path) == LStripDots(SplitExt(path)) \in VideoExts

\* looks_video(path)
LooksVideo(path) == LStripDots(Lower(SplitExt(path))) \in VideoExts

\* File names with a playable container as extension, and others.
PlayableNames == {<<"a", ".", "m", "p", "4">>, <<"a", ".", "M", "P", "4">>,
                  <<"a", ".", "M", "k", "v">>, <<"a", ".", "b", ".", "w", "e", "b", "m">>}

OtherNames == {<<"a">>, <<"a", ".">>, <<"m", "p", "4">>, <<"a", ".", "m", "p", "3">>,
               <<"a", ".", "m", "p", "4", ".", "p", "a", "r", "t">>}

\* How a send_video / send_document call ends: it returns, or raises an
\* error whose text has "Timeout" or "closing transport", or another error.
SendEnds == {"ok", "transient", "other"}

UpInit ==
    /\ MainIdle
    /\ pg = PgIdle /\ tk = TkIdle /\ sz = SzIdle /\ disk = <<>> /\ fc = <<>>
    /\ \E v \in BOOLEAN, n \in PlayableNames \cup OtherNames :
          up = [pc |-> "called", as_video |-> v, path |-> n, attempt |-> 0, log |-> <<>>]

\* The first send of an attempt: send_video when as_video and
\* looks_video(path), send_document otherwise.
FirstSend(u) ==
    LET k == IF u.as_video /\ LooksVideo(u.path) THEN "video" ELSE "doc"
    IN [u EXCEPT !.pc = k, !.log = Append(@, [kind |-> k, res |-> "pending"])]

Ended(u, r) == [u EXCEPT !.log[Len(u.log)].res = r]

\* send_with_retry is called: attempt 0 issues its first send.
UpStart ==
    /\ up.pc = "called"
    /\ up' = FirstSend(up)
    /\ UNCHANGED <<main, pg, tk, sz, disk, fc>>

\* send_video ends: return, or the inner except issues send_document.
UpVideoEnds(r) ==
    /\ up.pc = "video"
    /\ up' = IF r = "ok" THEN [Ended(up, r) EXCEPT !.pc = "returned"]
             ELSE [Ended(up, r) EXCEPT
                      !.pc = "doc",
                      !.log = Append(@, [kind |-> "doc", res |-> "pending"])]
    /\ UNCHANGED <<main, pg, tk, sz, disk, fc>>

\* An outer except that sleeps and retries after any error of attempt 0.
UpDocEndsRetriesAll(r) ==
    /\ up.pc = "doc"
    /\ up' = [Ended(up, r) EXCEPT
                !.pc = IF r = "ok" THEN "returned"
                       ELSE IF up.attempt = 0 THEN "sleep"
                       ELSE "raised"]
    /\ UNCHANGED <<main, pg, tk, sz, disk, fc>>

\* send_document ends: return, or the outer except sleeps before the second
\* attempt, or raises.
UpDocEnds(r) ==
    /\ up.pc = "doc"
    /\ up' = [Ended(up, r) EXCEPT
                !.pc = IF r = "ok" THEN "returned"
                       ELSE IF r = "transient" /\ up.attempt = 0 THEN "sleep"
                       ELSE "raised"]
    /\ UNCHANGED <<main, pg, tk, sz, disk, fc>>

\* asyncio.sleep(2.0) is over: continue with attempt 1.
UpWake ==
    /\ up.pc = "sleep"
    /\ up' = FirstSend([up EXCEPT !.attempt = 1])
    /\ UNCHANGED <<main, pg, tk, sz, disk, fc>>

UpNext ==
    \/ UpStart
    \/ \E r \in SendEnds : UpVideoEnds(r)
    \/ \E r \in SendEnds : UpDocEnds(r)
    \/ UpWake

SendSpec == UpInit /\ [][UpNext]_vars

\* C12: the first send is the media send exactly when media mode is on and
\* the extension is a playable container; then every media send that fails
\* is followed by one document send of the same file, and a document send
\* only ever comes right after a failed media send. Otherwise every send is
\* a document send.
C12_MediaFirstThenDocument ==
    LET media == up.as_video /\ up.path \in PlayableNames
        n == Len(up.log)
    IN (up.pc # "idle" /\ n > 0) =>
          /\ up.log[1].kind = IF media THEN "video" ELSE "doc"
          /\ ~media => \A i \in 1..n : up.log[i].kind = "doc"
          /\ media =>
               \A i \in 1..n :
                  /\ (up.log[i].kind = "video" /\ up.log[i].res \in {"transient", "other"})
                        => (i < n /\ up.log[i + 1].kind = "doc")
                  /\ up.log[i].kind = "doc"
                        => /\ i > 1
                           /\ up.log[i - 1].kind = "video"
                           /\ up.log[i - 1].res \in {"transient", "other"}

\* a.MP4 in media mode: the media send failed and the document send that
\* followed has gone through.
C12_Witness ==
    /\ up.pc = "returned"
    /\ up.as_video
    /\ up.path = <<"a", ".", "M", "P", "4">>
    /\ up.log = <<[kind |-> "video", res |-> "other"], [kind |-> "doc", res |-> "ok"]>>

\* ---------------------------------------------------------- DOWNLOAD_DIR
\* cb_get calls of different jobs in progress at one time, seen from the
\* download directory
MaxDirCalls == 2

DirCalls == 1..MaxDirCalls

\* The URLs of the jobs: two pages of one host.
DirUrls == {"h/v1", "h/v2"}

\* urlparse(url).netloc
Host(url) == "h"

\* The file the engine writes for outtmpl "%(title).200B [%(id)s].%(ext)s":
\* title, id and ext are those of the video the URL gives.
EngineName(url) == [title |-> url, id |-> url, ext |-> "mp4"]

\* The file direct_http_download writes: "{safe_title} [direct].{ext}", the
\* title being host_title(url) and ext that of the .mp4 URL.
DirectName(url) == [title |-> Host(url), id |-> "direct", ext |-> "mp4"]

DirNames == {EngineName(u) : u \in DirUrls} \cup {DirectName(u) : u \in DirUrls}

NoFile == 0

FreeFc == [pc |-> "free", url |-> "none", path |-> "none", out |-> "none"]

\* An empty directory and no call. disk[n] is the call whose bytes the file
\* named n holds, or NoFile.
DirInit ==
    /\ MainIdle
    /\ pg = PgIdle /\ tk = TkIdle /\ sz = SzIdle /\ up = UpIdle
    /\ disk = [n \in DirNames |-> NoFile]
    /\ fc = [c \in DirCalls |-> FreeFc]

InFlight(c) == fc[c].pc \in {"writing", "check", "upload", "cleanup"}

\* cb_get of job c starts a strategy on the job's URL: an engine strategy
\* (raw = FALSE) or the raw fetch.
DirStart(c, u, raw) ==
    /\ fc[c].pc = "free"
    /\ fc' = [fc EXCEPT ![c] = [pc |-> "writing", url |-> u,
                                path |-> IF raw THEN DirectName(u) ELSE EngineName(u),
                                out |-> "none"]]
    /\ UNCHANGED <<main, pg, tk, sz, up, disk>>

\* The strategy returns final_path: the file is written.
DirWritten(c) ==
    /\ fc[c].pc = "writing"
    /\ disk' = [disk EXCEPT ![fc[c].path] = c]
    /\ fc' = [fc EXCEPT ![c].pc = "check"]
    /\ UNCHANGED <<main, pg, tk, sz, up>>

\* "if not final_path or not os.path.exists(final_path)", then the size
\* gate: too large is reported and the file removed; else "Uploading".
DirCheck(c, big) ==
    /\ fc[c].pc = "check"
    /\ IF disk[fc[c].path] = NoFile
       THEN fc' = [fc EXCEPT ![c].pc = "done", ![c].out = "notfound"] /\ disk' = disk
       ELSE IF big
       THEN /\ fc' = [fc EXCEPT ![c].pc = "done", ![c].out = "toolarge"]
            /\ disk' = [disk EXCEPT ![fc[c].path] = NoFile]
       ELSE fc' = [fc EXCEPT ![c].pc = "upload"] /\ disk' = disk
    /\ UNCHANGED <<main, pg, tk, sz, up>>

\* send_with_retry ends: it returns, or it raises (always when the file is
\* no longer there); the outcome is put on the message.
DirUploadEnds(c, ok) ==
    /\ fc[c].pc = "upload"
    /\ fc' = [fc EXCEPT ![c].pc = "cleanup",
                        ![c].out = IF ok /\ disk[fc[c].path] # NoFile
                                   THEN "delivered" ELSE "upload_failed"]
    /\ UNCHANGED <<main, pg, tk, sz, up, disk>>

\* A way out of the upload that leaves the file where it is.
DirCleanupSkipped(c) ==
    /\ fc[c].pc = "cleanup"
    /\ fc' = [fc EXCEPT ![c].pc = "done"]
    /\ UNCHANGED <<main, pg, tk, sz, up, disk>>

\* os.remove(final_path), on both ways out of the upload.
DirCleanup(c) ==
    /\ fc[c].pc = "cleanup"
    /\ disk' = [disk EXCEPT ![fc[c].path] = NoFile]
    /\ fc' = [fc EXCEPT ![c].pc = "done"]
    /\ UNCHANGED <<main, pg, tk, sz, up>>

\* cb_get has returned.
DirReturn(c) ==
    /\ fc[c].pc = "done"
    /\ fc' = [fc EXCEPT ![c] = FreeFc]
    /\ UNCHANGED <<main, pg, tk, sz, up, disk>>

\* purge_confirm: "purge:cancel" leaves the directory alone, "purge:confirm"
\* removes every file of it (a call that removes nothing is no step here).
PurgeConfirm(act) ==
    /\ disk' = IF act = "cancel" THEN disk ELSE [n \in DirNames |-> NoFile]
    /\ disk' # disk
    /\ UNCHANGED <<main, pg, tk, sz, up, fc>>

DirNext ==
    \/ \E c \in DirCalls, u \in DirUrls, raw \in BOOLEAN : DirStart(c, u, raw)
    \/ \E c \in DirCalls : DirWritten(c)
    \/ \E c \in DirCalls, big \in BOOLEAN : DirCheck(c, big)
    \/ \E c \in DirCalls, ok \in BOOLEAN : DirUploadEnds(c, ok)
    \/ \E c \in DirCalls : DirCleanup(c)
    \/ \E c \in DirCalls : DirReturn(c)
    \/ \E act \in {"confirm", "cancel"} : PurgeConfirm(act)

DirSpec == DirInit /\ [][DirNext]_vars

\* C13: the step that ends a call whose upload failed leaves the file of
\* that call on disk.
C13_FailedUploadKeepsFile ==
    [][\A c \in DirCalls :
          (fc[c].out = "upload_failed" /\ fc[c].pc = "cleanup" /\ fc'[c].pc = "done")
              => (disk[fc[c].path] # NoFile => disk'[fc[c].path] # NoFile)]_vars

\* C15: two calls of different jobs that are writing, checking, uploading
\* or cleaning up never have the same file.
C15_DistinctFiles ==
    \A a, b \in DirCalls :
        (a # b /\ InFlight(a) /\ InFlight(b)) => fc[a].path # fc[b].path

\* C16: a purge never removes the file a call in progress has written and
\* still has to check, upload or clean up.
C16_PurgeSparesInFlight ==
    [][\A c \in DirCalls :
          (fc[c].pc \in {"check", "upload", "cleanup"} /\ fc'[c] = fc[c]
             /\ disk[fc[c].path] # NoFile)
              => disk'[fc[c].path] # NoFile]_vars

\* ------------------------------------------------- job lifecycle (claims)
\* The strategy of call e has been handed to a worker thread and the call
\* awaits it: the loop is free for other handlers.
OnWorkerThread(e) == ex[e].pc = "run"

\* C14: every strategy that starts runs on a worker thread, the call
\* awaiting it, so that the loop can run other handlers (cb_cancel among
\* them) until the strategy ends.
C14_StrategiesOffTheLoop ==
    [][\A e \in Execs :
          (ex'[e].strat # ex[e].strat /\ ex'[e].strat # 0) => OnWorkerThread(e)']_vars

\* ------------------------------------------- the registry with several jobs
\* URL messages handled and distinct values of uuid.uuid4().hex[:8], when
\* only on_url and cb_cancel run
MaxRegUrls == 2
MaxRegIds == 2

RegObjs == 1..MaxRegUrls
RegIds == 1..MaxRegIds

RegInit ==
    /\ JOBS = [i \in RegIds |-> NoJob]
    /\ job = [o \in RegObjs |-> FreeJob]
    /\ ui = [o \in RegObjs |-> "none"]
    /\ pend = <<>>
    /\ ex = [e \in Execs |-> FreeEx]
    /\ cq = [c \in Cancels |-> FreeCq]
    /\ tk = TkIdle
    /\ SideIdle

\* URL messages and Cancel clicks, with no quality button clicked.
RegNext ==
    \/ \E o \in RegObjs, id \in RegIds : OnUrl(o, id)
    \/ \E o \in RegObjs, r \in ProbeKinds : OnUrlProbed(o, r)
    \/ \E c \in Cancels, o \in RegObjs : CbCancel(c, o)
    \/ \E c \in Cancels : CbCancelPop(c)

RegSpec == RegInit /\ [][RegNext]_vars

\* C18: on_url never gives a new job an id that has an entry in JOBS.
C18_FreshJobIds ==
    [][\A o \in RegObjs, id \in RegIds : OnUrl(o, id) => JOBS[id] = NoJob]_vars

C20_FailureKindsApart ==
    [][\A e \in Execs :
          /\ (ex[e].out # "notfound" /\ ex'[e].out = "notfound") =>
                \E f \in {"missing", "ok", "big"} : EngineReturn(e, f)
          /\ (\E k \in {"drm", "err"}, d \in FetchResults : EngineRaise(e, k, d)) =>
                (ex'[e].pc = "w_pop" => ex'[e].out \in {"err_download", "err_other"})]_vars

\* ------------------------------------------ job lifecycle (further claims)
\* The texts the hook hands to the loop.
HookTexts == {"progress", "finalizing"}

\* C21: a hook call that does not raise (the thread goes on) leaves JOBS,
\* every job record and every message as they are, and does nothing but
\* hand at most one text for the call's own message to the loop; and the
\* step in which a worker thread ends changes neither JOBS nor a job record.
C21_WorkerOnlyReads ==
    [][\A e \in Execs :
          /\ (/\ ex[e].pc = "run"
              /\ ~CancelledFlag(ex[e].id)
              /\ \E st \in {"downloading", "finished"}, open \in BOOLEAN :
                    Hook(e, st, open, "ok")) =>
                /\ JOBS' = JOBS /\ job' = job /\ ui' = ui
                /\ ex'[e].pc = "run" /\ ex'[e].strat = ex[e].strat
                /\ \/ pend' = pend
                   \/ \E t \in HookTexts : pend' = Append(pend, <<ex[e].obj, t>>)
          /\ (ex[e].pc = "run" /\ (ex'[e].pc # "run" \/ ex'[e].strat # ex[e].strat)) =>
                (JOBS' = JOBS /\ job' = job)]_vars

\* The hook of a running strategy has handed a progress line to the loop,
\* and the message still shows "Preparing".
C21_Witness ==
    \E e \in Execs :
        /\ ex[e].pc = "run"
        /\ pend = <<<<ex[e].obj, "progress">>>>
        /\ ui[ex[e].obj] = "preparing"

\* C23: with one cb_get call at work on a job, a progress line never
\* replaces the "Uploading" text that call has put on the job's message
\* after the line was generated.
C23_ProgressInOrder ==
    [][\A o \in Objs :
          (ui[o] = "uploading" /\ Cardinality({e \in Execs : ex[e].pc # "free"}) <= 1)
              => ui'[o] # "progress"]_vars

\* C24: no step sets the cancelled flag of a job record back to false.
C24_FlagNeverCleared ==
    [][\A o \in Objs : job[o].cancelled => job'[o].cancelled]_vars

\* The flag is set, cb_cancel has returned after removing the entry, and a
\* get: click that came before the removal has a strategy running.
C24_Witness ==
    \E e \in Execs :
        /\ ex[e].pc = "run"
        /\ job[ex[e].obj].cancelled
        /\ JOBS[ex[e].id] = NoJob
        /\ \A c \in Cancels : cq[c].pc = "free"

\* C27: the step in which cb_cancel returns leaves its id out of JOBS; and
\* a get: callback handled while its id is out of JOBS does nothing but
\* answer "Job missing.": it starts no strategy, sends no file, edits no
\* message and changes neither JOBS nor a job record.
C27_CancelledJobIsGone ==
    [][/\ \A c \in Cancels :
             (cq[c].pc = "pop" /\ cq'[c].pc = "free") => JOBS'[cq[c].id] = NoJob
       /\ \A e \in Execs :
             /\ \A o \in Objs :
                   (CbGet(e, o) /\ JOBS[job[o].id] = NoJob) =>
                       ex'[e] = [FreeEx EXCEPT !.pc = "w_ret", !.id = job[o].id,
                                               !.out = "missing"]
             /\ (ex[e].pc = "w_ret" /\ ex'[e] # ex[e]) =>
                   (ex'[e] = FreeEx /\ JOBS' = JOBS /\ job' = job /\ ui' = ui /\ pend' = pend)]_vars

\* cb_cancel has returned for a job no quality button was clicked on, and a
\* get: click on its message has since been answered with "Job missing.".
C27_Witness ==
    \E e \in Execs, o \in Objs :
        /\ ex[e].pc = "w_ret" /\ ex[e].out = "missing" /\ ex[e].id = job[o].id
        /\ ui[o] = "cancelled"
        /\ job[o].cancelled
        /\ JOBS[job[o].id] = NoJob
        /\ \A f \in Execs \ {e} : ex[f].pc = "free"
        /\ \A c \in Cancels : cq[c].pc = "free"

\* C28: strategy 1 of a cb_get call never starts while the flag of the
\* call's job is set.
C28_NoStartWhenCancelled ==
    [][\A e \in Execs :
          (ex[e].pc = "prep" /\ ex'[e].pc = "run") => ~job[ex[e].obj].cancelled]_vars

\* The texts a cb_get call puts on the message once its download is on.
DownloadTexts == {"progress", "finalizing", "toolarge", "uploading", "upload_failed",
                  "notfound", "err_download", "err_other"}

\* C29: on a message that shows "Cancelled." no progress line, "Finalizing",
\* too-large, "Uploading" or error text of a cb_get call takes its place.
C29_CancelledTextStays ==
    [][\A o \in Objs : ui[o] = "cancelled" => ui'[o] \notin DownloadTexts]_vars

\* ------------------------------------------- send_with_retry (the retry)
SendFailures == {"transient", "other"}

\* The number of sends attempt 0 makes when it fails: send_video and
\* send_document, or send_document alone.
FirstAttemptSends(u) == IF u.log[1].kind = "video" THEN 2 ELSE 1

\* C26: send_with_retry makes at most two attempts; the second one only
\* after the first has failed with a transient error; a first attempt that
\* fails with another error and a second attempt that fails raise; a send
\* that succeeds is the last send of the call, which then returns.
C26_OneRetryOnTransient ==
    LET n == Len(up.log)
    IN (up.pc # "idle" /\ n > 0) =>
          /\ up.attempt \in {0, 1}
          /\ n <= 4
          /\ up.attempt = 1 =>
                /\ n > FirstAttemptSends(up)
                /\ up.log[FirstAttemptSends(up)] = [kind |-> "doc", res |-> "transient"]
          /\ up.pc = "sleep" <=>
                (up.attempt = 0 /\ up.log[n] = [kind |-> "doc", res |-> "transient"])
          /\ up.pc = "raised" <=>
                /\ up.log[n].kind = "doc"
                /\ \/ up.attempt = 0 /\ up.log[n].res = "other"
                   \/ up.attempt = 1 /\ up.log[n].res \in SendFailures
          /\ up.pc = "returned" <=> up.log[n].res = "ok"
          /\ \A i \in 1..(n - 1) : up.log[i].res \in SendFailures

\* The document send of attempt 0 failed with a transient error and that of
\* attempt 1 has gone through.
C26_Witness ==
    /\ up.pc = "returned"
    /\ up.attempt = 1
    /\ up.log = <<[kind |-> "doc", res |-> "transient"], [kind |-> "doc", res |-> "ok"]>>

\* -------------------------------------------- DOWNLOAD_DIR (further claims)
\* The outcomes of cb_get on the paths where final_path named a file on disk.
LocatedOuts == {"toolarge", "upload_failed", "delivered"}

\* C30: when a cb_get call that found its file on disk (too large, upload
\* failed, delivered) is about to return, the file it found is no longer in
\* the directory: the name is free or holds what another call has written
\* since.
C30_LocatedFileRemoved ==
    \A c \in DOMAIN fc :
        (fc[c].pc = "done" /\ fc[c].out \in LocatedOuts) => disk[fc[c].path] # c

\* One call has delivered its file and another has failed to upload its
\* own, both are about to return, and the directory is empty.
C30_Witness ==
    /\ fc # <<>>
    /\ \E a, b \in DOMAIN fc :
          /\ fc[a].pc = "done" /\ fc[a].out = "delivered"
          /\ fc[b].pc = "done" /\ fc[b].out = "upload_failed"
          /\ fc[a].path # fc[b].path
    /\ \A n \in DOMAIN disk : disk[n] = NoFile

\* ------------------------------------------------------- progress edits
\* The last reading of time.time() (in half seconds), cb_get calls on the
\* one job, progress edits scheduled, chunks a raw fetch reads
MaxNow == 6
MaxPgCalls == 2
MaxPgEdits == 2
MaxChunks == 3

\* "now - started['ts'] > 1.0", "now - last > 1.0": one second
Window == 2

PgCalls == 1..MaxPgCalls

\* total = None: no Content-Length
NoLength == -1

\* What the HEAD request gives as total, in chunks.
Totals == {NoLength, 0, 2, 4}

\* "pct = (downloaded / total * 100.0) if total else 0.0", in tenths of a
\* percent
Pct(done, total) == IF total > 0 THEN (done * 1000) \div total ELSE 0

\* bar(pct): the number of "#" among the 20 places
Bar(pct) ==
    LET clamped == IF pct < 0 THEN 0 ELSE IF pct > 1000 THEN 1000 ELSE pct
    IN (20 * clamped) \div 1000

\* The text of the raw fetch: f"{bar(..)}  {..:.1f}%\n{fmt_bytes(downloaded)}
\* / {fmt_bytes(total)}" (total NoLength is shown as "?").
RawLine(done, total) ==
    [bar |-> Bar(Pct(done, total)), pct |-> Pct(done, total), sign |-> "%",
     done |-> done, total |-> total]

\* A call: ph is where it is (strategies 1-3 with the hook, or the raw
\* fetch), ts is started["ts"], last the raw fetch's local of that name.
FreePg == [ph |-> "free", ts |-> 0, last |-> 0, done |-> 0, total |-> NoLength]

\* The clock is long past the epoch: a first reading passes both tests.
PgInit ==
    /\ MainIdle
    /\ tk = TkIdle /\ sz = SzIdle /\ up = UpIdle /\ disk = <<>> /\ fc = <<>>
    /\ pg = [pc |-> "on", now |-> Window + 1, call |-> [c \in PgCalls |-> FreePg],
             log |-> <<>>]

\* schedule_edit(loop, msg, text) at clock reading pg.now
Scheduled(c, kind, line) ==
    Append(pg.log, [at |-> pg.now, by |-> c, kind |-> kind, line |-> line])

\* cb_get: started = {"flag": False, "ts": 0.0, "file": None}
PgGet(c) ==
    /\ pg.pc = "on"
    /\ pg.call[c].ph = "free"
    /\ pg' = [pg EXCEPT !.call[c] = [FreePg EXCEPT !.ph = "hook"]]
    /\ UNCHANGED <<main, tk, sz, up, disk, fc>>

\* hook(d): a progress line when more than a second has passed since
\* started["ts"]; "Finalizing" whenever a download has finished.
PgHook(c, st) ==
    /\ pg.pc = "on"
    /\ pg.call[c].ph = "hook"
    /\ Len(pg.log) < MaxPgEdits
    /\ pg' = IF st = "finished"
             THEN [pg EXCEPT !.log = Scheduled(c, "finalizing", [text |-> "finalizing"])]
             ELSE IF pg.now - pg.call[c].ts > Window
             THEN [pg EXCEPT !.call[c].ts = pg.now,
                             !.log = Scheduled(c, "progress", [text |-> "hook"])]
             ELSE pg
    /\ UNCHANGED <<main, tk, sz, up, disk, fc>>

\* Strategies 1 and 2 have raised: direct_http_download starts, with the
\* total of its HEAD request and last = 0.0.
PgRawStart(c, total) ==
    /\ pg.pc = "on"
    /\ pg.call[c].ph = "hook"
    /\ pg' = [pg EXCEPT !.call[c].ph = "raw", !.call[c].last = 0,
                        !.call[c].done = 0, !.call[c].total = total]
    /\ UNCHANGED <<main, tk, sz, up, disk, fc>>

\* A chunk of the body is written.
PgChunk(c) ==
    /\ pg.pc = "on"
    /\ pg.call[c].ph = "raw"
    /\ pg.call[c].done < MaxChunks
    /\ Len(pg.log) < MaxPgEdits
    /\ LET done == pg.call[c].done + 1
       IN pg' = IF pg.now - pg.call[c].last > Window
                THEN [pg EXCEPT !.call[c].done = done, !.call[c].last = pg.now,
                                !.log = Scheduled(c, "raw", RawLine(done, pg.call[c].total))]
                ELSE [pg EXCEPT !.call[c].done = done]
    /\ UNCHANGED <<main, tk, sz, up, disk, fc>>

\* cb_get returns.
PgEnd(c) ==
    /\ pg.pc = "on"
    /\ pg.call[c].ph \in {"hook", "raw"}
    /\ pg' = [pg EXCEPT !.call[c] = FreePg]
    /\ UNCHANGED <<main, tk, sz, up, disk, fc>>

\* Half a second passes.
PgTick ==
    /\ pg.pc = "on"
    /\ pg.now < MaxNow
    /\ pg' = [pg EXCEPT !.now = @ + 1]
    /\ UNCHANGED <<main, tk, sz, up, disk, fc>>

PgNext ==
    \/ \E c \in PgCalls : PgGet(c)
    \/ \E c \in PgCalls, st \in {"downloading", "finished"} : PgHook(c, st)
    \/ \E c \in PgCalls, total \in Totals : PgRawStart(c, total)
    \/ \E c \in PgCalls : PgChunk(c)
    \/ \E c \in PgCalls : PgEnd(c)
    \/ PgTick

ProgSpec == PgInit /\ [][PgNext]_vars

\* The progress lines scheduled for the job (hook and raw fetch).
ProgressEdits == {i \in 1..Len(pg.log) : pg.log[i].kind \in {"progress", "raw"}}

\* C22: two progress lines scheduled for one job, by whichever strategy or
\* call, are at least a throttle window apart.
C22_OneEditPerWindow ==
    pg.pc = "on" =>
        \A i, j \in ProgressEdits : i < j => pg.log[j].at - pg.log[i].at >= Window

\* C25: a progress line of the raw fetch shows a percentage when the
\* Content-Length is known, and none when it is not.
C25_RawProgressLine ==
    pg.pc = "on" =>
        \A i \in 1..Len(pg.log) :
            pg.log[i].kind = "raw" =>
                IF pg.log[i].line.total = NoLength
                THEN pg.log[i].line.sign # "%"
                ELSE pg.log[i].line.sign = "%"

====
